---- MODULE Spec2Model ----
(***************************************************************************)
(* Failover managers of the backend (app/db/{postgres,mongodb,redis}/      *)
(* failover.py).  One manager is modelled at a time; `kind` says which of  *)
(* the three classes it is.  A pool object (engine / client) is modelled   *)
(* by its identity: "Primary", "Fallback", or "None" for Python's None, so *)
(* that the code's `==` comparisons (None == None included) are the        *)
(* model's `=`.  Every access is split into the statements the code        *)
(* executes, so interleavings of several threads are explored.             *)
(***************************************************************************)
EXTENDS Integers, FiniteSets, Sequences, TLC

VARIABLES
    kind,               \* "postgres" | "mongo" | "redis"
    config,             \* the settings read, and whether a constructor call raises
    primary_client,     \* primary_engine / primary_client
    fallback_client,    \* fallback_engine / fallback_client
    current_client,     \* current_engine / current_client
    session_factory,    \* postgres: the engine the sessionmaker is bound to
    current_database,   \* mongo: [client, name] of current_database, or NoDatabase
    lock,               \* set of threads holding self.lock ({} = free)
    last_health_check,
    primary_healthy,
    clock,              \* what time.time() returns now
    primaryAlive,       \* whether a probe of the primary backend succeeds now
    pc,                 \* per thread: the statement it is at
    op,                 \* per thread: the method it is running
    current_time,       \* per thread: local variable of _check_and_switch
    result,             \* per thread: what the method returned or raised
    acc,                \* per thread: record of the access in progress (history)
    probe_log,          \* history: outcome and clock value of the last probe
    snapshot,           \* per thread: the dict get_status is building
    health,             \* the /health/databases request (HealthSpec)
    getdb,              \* the get_db dependency of one request (GetDbSpec)
    mfa,                \* the user's MFA state and requests (MfaSpec, AuthSpec)
    social              \* the comment graph (SocialSpec)

vars == <<kind, config, primary_client, fallback_client, current_client,
          session_factory, current_database, lock, last_health_check,
          primary_healthy, clock, primaryAlive, pc, op, current_time, result,
          acc, probe_log, snapshot, health, getdb, mfa, social>>

\* The parts of the backend a failover manager does not touch.
others == <<health, getdb, mfa, social>>

mgr == <<primary_client, fallback_client, current_client, session_factory,
         current_database, last_health_check, primary_healthy>>

\* ------------------------------------------------------------------ bounds
NumThreads == 2
MaxClock == 60
ClockStep == 15

\* self.health_check_interval
HealthCheckInterval == 30

Threads == 1..NumThreads
Kinds == {"postgres", "mongo", "redis"}
Pools == {"None", "Primary", "Fallback"}
NoDatabase == [client |-> "None", name |-> "None"]

\* time.time() at start-up is far more than one interval past the epoch.
ClockOrigin == HealthCheckInterval

\* The critical section of an access: from lock acquisition to its release.
Section == {"read_time", "throttle", "switch_back", "sb_current", "sb_healthy",
            "sb_bind", "check_primary", "fo_current", "fo_healthy", "fo_bind",
            "finish"}

\* ----------------------------------------------------------- construction
\* (bug variant: only the primary is considered)
OrFirst(a, b) == a

\* Python's `a or b` on two optional pool objects.
Or(a, b) == IF a # "None" THEN a ELSE b

\* The settings a manager reads and the constructor calls that raise.
Configs ==
    { c \in [primary_url : BOOLEAN, fallback_url : BOOLEAN,
             primary_raises : BOOLEAN, fallback_raises : BOOLEAN] :
        /\ c.primary_raises => c.primary_url
        /\ c.fallback_raises => c.fallback_url }

\* settings.MONGODB_ATLAS_DATABASE or settings.MONGODB_DATABASE / settings.MONGODB_DATABASE
AtlasOrLocalName == "MONGODB_ATLAS_DATABASE or MONGODB_DATABASE"
LocalName == "MONGODB_DATABASE"

\* sessionmaker(bind=engine): the factory is identified by the engine it binds.
Sessionmaker(k, engine) == IF k = "postgres" THEN engine ELSE "None"

\* client[database_name]
Database(k, client, name) ==
    IF k = "mongo" THEN [client |-> client, name |-> name] ELSE NoDatabase

\* _initialize_engines / _initialize_clients: the fields after __init__.
InitializeClients(k, c) ==
    IF c.primary_raises
    THEN \* the primary constructor raised: the fallback one is never reached,
         \* and the except branch finds fallback None
         [primary |-> "None", fallback |-> "None", current |-> "None",
          factory |-> "None", database |-> NoDatabase]
    ELSE IF c.fallback_raises
    THEN \* the fallback constructor raised: `current = primary or fallback`
         \* is skipped, and the except branch finds fallback None
         [primary |-> IF c.primary_url THEN "Primary" ELSE "None",
          fallback |-> "None", current |-> "None",
          factory |-> "None", database |-> NoDatabase]
    ELSE LET p == IF c.primary_url THEN "Primary" ELSE "None"
             f == IF c.fallback_url THEN "Fallback" ELSE "None"
             cur == Or(p, f)
         IN [primary |-> p, fallback |-> f, current |-> cur,
             factory |-> IF cur # "None" THEN Sessionmaker(k, cur) ELSE "None",
             database |-> IF cur # "None"
                          THEN Database(k, cur, AtlasOrLocalName)
                          ELSE NoDatabase]

NoResult == [status |-> "none", pool |-> "None"]
NoAccess == [start_current |-> "None", start_last |-> 0, start_healthy |-> TRUE,
             checked |-> FALSE, probes |-> 0, probe |-> "none",
             switched |-> FALSE, stale |-> FALSE]
NoProbes == [last |-> "none", last_at |-> 0, count |-> 0]

\* get_status has not read anything yet.
NoSnapshot == [using_primary |-> "unread", primary_available |-> "unread",
               fallback_available |-> "unread", primary_healthy |-> "unread",
               current_db |-> "unread"]

\* The requests of the other specifications are not running.
HealthOff == [phase |-> "off"]
GetDbOff == [phase |-> "off"]
MfaOff == [phase |-> "off"]
SocialOff == [phase |-> "off"]

\* Methods of each class that take the lock.
OpsOf(k) ==
    CASE k = "postgres" -> {"get_session", "get_engine"}
      [] k = "mongo"    -> {"get_database", "get_collection", "get_client"}
      [] k = "redis"    -> {"get_client"}

InitManager ==
    /\ kind \in Kinds
    /\ config \in Configs
    /\ LET m == InitializeClients(kind, config)
       IN /\ primary_client = m.primary
          /\ fallback_client = m.fallback
          /\ current_client = m.current
          /\ session_factory = m.factory
          /\ current_database = m.database
    /\ lock = {}
    /\ last_health_check = 0
    /\ primary_healthy = TRUE
    /\ clock = ClockOrigin
    /\ primaryAlive \in BOOLEAN
    /\ pc = [t \in Threads |-> "idle"]
    /\ op = [t \in Threads |-> "none"]
    /\ current_time = [t \in Threads |-> 0]
    /\ result = [t \in Threads |-> NoResult]
    /\ acc = [t \in Threads |-> NoAccess]
    /\ probe_log = NoProbes
    /\ snapshot = [t \in Threads |-> NoSnapshot]

Init ==
    /\ InitManager
    /\ health = HealthOff
    /\ getdb = GetDbOff
    /\ mfa = MfaOff
    /\ social = SocialOff

\* --------------------------------------------------------------- helpers
\* (bug variant: the methods do not take the lock)
LockIgnored == TRUE

\* `with self.lock:` can be entered
LockFree == lock = {}

\* (bug variant: the throttle test is missing)
ThrottledNever(now, last) == FALSE

\* current_time - self.last_health_check < self.health_check_interval
Throttled(now, last) == now - last < HealthCheckInterval

\* _health_check(pool): True iff the round trip succeeds; any exception,
\* the AttributeError of a None pool included, is caught and gives False.
HealthCheck(pool) == pool # "None" /\ primaryAlive

\* (bug variant: the switch-back branch is missing)
SwitchBackNeverTried == FALSE

\* self.current_engine == self.fallback_engine and self.primary_engine
UsingFallbackWithPrimary ==
    current_client = fallback_client /\ primary_client # "None"

\* self.current_engine == self.primary_engine  (also is_using_primary)
UsingPrimary == current_client = primary_client

\* if self.fallback_engine:
FallbackConfigured == fallback_client # "None"

\* (bug variant: the test of the probe result is inverted)
ShouldFailOverInverted(healthy) == healthy /\ FallbackConfigured

\* if not self._health_check(primary): ... if self.fallback_engine:
ShouldFailOver(healthy) == ~healthy /\ FallbackConfigured

\* (bug variant: the switch-back branch assigns the wrong pool)
SwitchBackKeepsFallback == fallback_client

\* The pool the switch-back branch makes current.
SwitchBackTarget == primary_client

\* (bug variant: the fail-over branch assigns the wrong pool)
FailoverKeepsPrimary == primary_client

\* The pool the fail-over branch makes current.
FailoverTarget == fallback_client

\* (bug variant: a switch does not rebuild the factory / database)
NeedsRebindNever == FALSE

\* postgres rebuilds session_factory and mongo current_database after a
\* switch; redis has nothing to rebuild.
NeedsRebind == kind # "redis"

\* (bug variant: the test for a missing pool is dropped)
NoCurrentNever == FALSE

\* if not self.current_engine / if not self.current_client
NoCurrent == current_client = "None"

\* History of _health_check calls: outcome, and the clock value read by the
\* access that made the call.
Logged(t, healthy) ==
    [last |-> IF healthy THEN "healthy" ELSE "unhealthy",
     last_at |-> current_time[t],
     count |-> IF probe_log.count < 2 THEN probe_log.count + 1 ELSE 2]

Probed(t, healthy) ==
    [acc EXCEPT ![t].probes = @ + 1,
                ![t].probe = IF healthy THEN "healthy" ELSE "unhealthy"]

\* A role transition makes the handles returned before it old ones.
Switched(t) ==
    [u \in Threads |->
        IF u = t THEN [acc[u] EXCEPT !.switched = TRUE]
        ELSE IF pc[u] = "done" THEN [acc[u] EXCEPT !.stale = TRUE]
        ELSE acc[u]]

Goto(t, label) == pc' = [pc EXCEPT ![t] = label]

\* (bug variant: handles follow the manager's active pool)
HandlesMigrated(target) ==
    [t \in Threads |->
        IF result[t].status = "returned"
        THEN [status |-> "returned", pool |-> target] ELSE result[t]]

\* The handles callers hold after `self.current_engine = target`: the
\* assignment rebinds the manager's attribute and touches no session,
\* database or client object handed out earlier.
HandlesAfterSwitch(target) == result

\* ---------------------------------------------------------------- access
\* A thread calls one of the manager's locking methods.
Call(t) ==
    /\ pc[t] = "idle"
    /\ \E o \in OpsOf(kind) : op' = [op EXCEPT ![t] = o]
    /\ Goto(t, "acquire")
    /\ UNCHANGED <<others, snapshot, kind, config, mgr, lock, clock, primaryAlive, current_time,
                   result, acc, probe_log>>

\* with self.lock:
AcquireLock(t) ==
    /\ pc[t] = "acquire"
    /\ LockFree
    /\ lock' = lock \cup {t}
    /\ acc' = [acc EXCEPT ![t].start_current = current_client,
                          ![t].start_last = last_health_check,
                          ![t].start_healthy = primary_healthy]
    /\ Goto(t, "read_time")
    /\ UNCHANGED <<others, snapshot, kind, config, mgr, clock, primaryAlive, op, current_time,
                   result, probe_log>>

\* current_time = time.time()
ReadClock(t) ==
    /\ pc[t] = "read_time"
    /\ current_time' = [current_time EXCEPT ![t] = clock]
    /\ Goto(t, "throttle")
    /\ UNCHANGED <<others, snapshot, kind, config, mgr, lock, clock, primaryAlive, op, result,
                   acc, probe_log>>

\* if current_time - last_health_check < interval: return
\* self.last_health_check = current_time
ThrottleCheck(t) ==
    /\ pc[t] = "throttle"
    /\ IF Throttled(current_time[t], last_health_check)
       THEN /\ Goto(t, "finish")
            /\ UNCHANGED <<last_health_check, acc>>
       ELSE /\ last_health_check' = current_time[t]
            /\ acc' = [acc EXCEPT ![t].checked = TRUE]
            /\ Goto(t, "switch_back")
    /\ UNCHANGED <<others, snapshot, kind, config, primary_client, fallback_client,
                   current_client, session_factory, current_database,
                   primary_healthy, lock, clock, primaryAlive, op,
                   current_time, result, probe_log>>

\* if current == fallback and primary: if self._health_check(primary): ...
SwitchBack(t) ==
    /\ pc[t] = "switch_back"
    /\ IF UsingFallbackWithPrimary
       THEN LET healthy == HealthCheck(primary_client)
            IN /\ probe_log' = Logged(t, healthy)
               /\ acc' = Probed(t, healthy)
               /\ Goto(t, IF healthy THEN "sb_current" ELSE "check_primary")
       ELSE /\ Goto(t, "check_primary")
            /\ UNCHANGED <<probe_log, acc>>
    /\ UNCHANGED <<others, snapshot, kind, config, mgr, lock, clock, primaryAlive, op,
                   current_time, result>>

\* self.current_engine = self.primary_engine
SwitchBackSetCurrent(t) ==
    /\ pc[t] = "sb_current"
    /\ current_client' = SwitchBackTarget
    /\ acc' = Switched(t)
    /\ result' = HandlesAfterSwitch(SwitchBackTarget)
    /\ Goto(t, "sb_healthy")
    /\ UNCHANGED <<others, snapshot, kind, config, primary_client, fallback_client,
                   session_factory, current_database, last_health_check,
                   primary_healthy, lock, clock, primaryAlive, op,
                   current_time, probe_log>>

\* self.primary_healthy = True
SwitchBackSetHealthy(t) ==
    /\ pc[t] = "sb_healthy"
    /\ primary_healthy' = TRUE
    /\ Goto(t, IF NeedsRebind THEN "sb_bind" ELSE "finish")
    /\ UNCHANGED <<others, snapshot, kind, config, primary_client, fallback_client,
                   current_client, session_factory, current_database,
                   last_health_check, lock, clock, primaryAlive, op,
                   current_time, result, acc, probe_log>>

\* self.session_factory = sessionmaker(bind=self.current_engine, ...)
\* self.current_database = self.current_client[ATLAS_DATABASE or DATABASE]
SwitchBackBind(t) ==
    /\ pc[t] = "sb_bind"
    /\ session_factory' = Sessionmaker(kind, current_client)
    /\ current_database' = Database(kind, current_client, AtlasOrLocalName)
    /\ Goto(t, "finish")
    /\ UNCHANGED <<others, snapshot, kind, config, primary_client, fallback_client,
                   current_client, last_health_check, primary_healthy, lock,
                   clock, primaryAlive, op, current_time, result, acc,
                   probe_log>>

\* if current == primary: if not self._health_check(primary): if fallback: ...
CheckPrimary(t) ==
    /\ pc[t] = "check_primary"
    /\ IF UsingPrimary
       THEN LET healthy == HealthCheck(primary_client)
            IN /\ probe_log' = Logged(t, healthy)
               /\ acc' = Probed(t, healthy)
               /\ Goto(t, IF ShouldFailOver(healthy)
                          THEN "fo_current" ELSE "finish")
       ELSE /\ Goto(t, "finish")
            /\ UNCHANGED <<probe_log, acc>>
    /\ UNCHANGED <<others, snapshot, kind, config, mgr, lock, clock, primaryAlive, op,
                   current_time, result>>

\* self.current_engine = self.fallback_engine
FailoverSetCurrent(t) ==
    /\ pc[t] = "fo_current"
    /\ current_client' = FailoverTarget
    /\ acc' = Switched(t)
    /\ result' = HandlesAfterSwitch(FailoverTarget)
    /\ Goto(t, "fo_healthy")
    /\ UNCHANGED <<others, snapshot, kind, config, primary_client, fallback_client,
                   session_factory, current_database, last_health_check,
                   primary_healthy, lock, clock, primaryAlive, op,
                   current_time, probe_log>>

\* self.primary_healthy = False
FailoverSetHealthy(t) ==
    /\ pc[t] = "fo_healthy"
    /\ primary_healthy' = FALSE
    /\ Goto(t, IF NeedsRebind THEN "fo_bind" ELSE "finish")
    /\ UNCHANGED <<others, snapshot, kind, config, primary_client, fallback_client,
                   current_client, session_factory, current_database,
                   last_health_check, lock, clock, primaryAlive, op,
                   current_time, result, acc, probe_log>>

\* self.session_factory = sessionmaker(bind=self.fallback_engine, ...)
\* self.current_database = self.current_client[MONGODB_DATABASE]
FailoverBind(t) ==
    /\ pc[t] = "fo_bind"
    /\ session_factory' = Sessionmaker(kind, fallback_client)
    /\ current_database' = Database(kind, current_client, LocalName)
    /\ Goto(t, "finish")
    /\ UNCHANGED <<others, snapshot, kind, config, primary_client, fallback_client,
                   current_client, last_health_check, primary_healthy, lock,
                   clock, primaryAlive, op, current_time, result, acc,
                   probe_log>>

\* ------------------------------------------------- the end of each method
Returned(pool) == [status |-> "returned", pool |-> pool]
Raised == [status |-> "RuntimeError", pool |-> "None"]

\* What get_session does after _check_and_switch:
\* if not self.current_engine: raise RuntimeError; return self.session_factory()
SessionOutcome == IF NoCurrent THEN Raised ELSE Returned(session_factory)

\* What get_engine (postgres) and get_client (mongo) do: return self.current_*
ActiveOutcome == Returned(current_client)

\* What get_database does: if not self.current_database: raise RuntimeError;
\* return self.current_database.  get_collection indexes that database.
DatabaseOutcome ==
    IF current_database = NoDatabase THEN Raised
    ELSE Returned(current_database.client)

\* What get_client (redis) does: if not self.current_client: raise RuntimeError
ClientOutcome == IF NoCurrent THEN Raised ELSE Returned(current_client)

\* (bug variant: the lock is kept when the method ends)
UnlockSkipped(t) == lock

\* __exit__ of `with self.lock:`
Unlock(t) == lock \ {t}

\* Leaving the `with self.lock:` block, by return or by raise.
Leave(t, outcome) ==
    /\ result' = [result EXCEPT ![t] = outcome]
    /\ lock' = Unlock(t)
    /\ acc' = [acc EXCEPT ![t].stale = FALSE]
    /\ Goto(t, "done")
    /\ UNCHANGED <<others, snapshot, kind, config, mgr, clock, primaryAlive, op, current_time,
                   probe_log>>

GetSession(t) ==
    /\ pc[t] = "finish"
    /\ op[t] = "get_session"
    /\ Leave(t, SessionOutcome)

GetEngine(t) ==
    /\ pc[t] = "finish"
    /\ \/ op[t] = "get_engine"
       \/ kind = "mongo" /\ op[t] = "get_client"
    /\ Leave(t, ActiveOutcome)

GetDatabase(t) ==
    /\ pc[t] = "finish"
    /\ op[t] \in {"get_database", "get_collection"}
    /\ Leave(t, DatabaseOutcome)

GetClient(t) ==
    /\ pc[t] = "finish"
    /\ kind = "redis" /\ op[t] = "get_client"
    /\ Leave(t, ClientOutcome)

\* The caller is done with the outcome; the thread can make another call.
Return(t) ==
    /\ pc[t] = "done"
    /\ Goto(t, "idle")
    /\ op' = [op EXCEPT ![t] = "none"]
    /\ current_time' = [current_time EXCEPT ![t] = 0]
    /\ result' = [result EXCEPT ![t] = NoResult]
    /\ acc' = [acc EXCEPT ![t] = NoAccess]
    /\ snapshot' = [snapshot EXCEPT ![t] = NoSnapshot]
    /\ UNCHANGED <<others, kind, config, mgr, lock, clock, primaryAlive,
                   probe_log>>

\* ------------------------------------------------------------ get_status
\* Python's True / False / None as they appear in the status dict.
Str(b) == IF b THEN "True" ELSE "False"

\* "Supabase" / "MongoDB Atlas" / "Upstash"
PrimaryLabel(k) ==
    CASE k = "postgres" -> "Supabase"
      [] k = "mongo"    -> "MongoDB Atlas"
      [] k = "redis"    -> "Upstash"

\* "Local PostgreSQL" / "Local MongoDB" / "Local Redis"
FallbackLabel(k) ==
    CASE k = "postgres" -> "Local PostgreSQL"
      [] k = "mongo"    -> "Local MongoDB"
      [] k = "redis"    -> "Local Redis"

\* (bug variant: get_status refreshes the manager before reporting)
StatusEntryChecks == "read_time"

\* The first statement get_status runs: the dict display; it takes no lock
\* and does not call _check_and_switch.
StatusEntry == "st_using"

\* A thread calls get_status (any caller, the health endpoint included).
CallStatus(t) ==
    /\ pc[t] = "idle"
    /\ op' = [op EXCEPT ![t] = "get_status"]
    /\ Goto(t, StatusEntry)
    /\ UNCHANGED <<others, snapshot, kind, config, mgr, lock, clock,
                   primaryAlive, current_time, result, acc, probe_log>>

\* "using_primary": self.is_using_primary(),
\* "primary_available": self.primary_engine is not None,
\* "fallback_available": self.fallback_engine is not None,
StatusUsing(t) ==
    /\ pc[t] = "st_using"
    /\ snapshot' = [snapshot EXCEPT
            ![t].using_primary = Str(UsingPrimary),
            ![t].primary_available = Str(primary_client # "None"),
            ![t].fallback_available = Str(fallback_client # "None")]
    /\ Goto(t, "st_healthy")
    /\ UNCHANGED <<others, kind, config, mgr, lock, clock, primaryAlive, op,
                   current_time, result, acc, probe_log>>

\* "primary_healthy": self.primary_healthy if self.primary_engine else None,
StatusHealthy(t) ==
    /\ pc[t] = "st_healthy"
    /\ snapshot' = [snapshot EXCEPT
            ![t].primary_healthy =
                IF primary_client # "None" THEN Str(primary_healthy) ELSE "None"]
    /\ Goto(t, "st_label")
    /\ UNCHANGED <<others, kind, config, mgr, lock, clock, primaryAlive, op,
                   current_time, result, acc, probe_log>>

\* "current_db": "Supabase" if self.is_using_primary() else "Local PostgreSQL"
StatusLabel(t) ==
    /\ pc[t] = "st_label"
    /\ snapshot' = [snapshot EXCEPT
            ![t].current_db =
                IF UsingPrimary THEN PrimaryLabel(kind) ELSE FallbackLabel(kind)]
    /\ Goto(t, "done")
    /\ UNCHANGED <<others, kind, config, mgr, lock, clock, primaryAlive, op,
                   current_time, result, acc, probe_log>>

\* ----------------------------------------------------------- environment
\* Wall-clock time passes.
Tick ==
    /\ clock + ClockStep <= MaxClock
    /\ clock' = clock + ClockStep
    /\ UNCHANGED <<others, snapshot, kind, config, mgr, lock, primaryAlive, pc, op,
                   current_time, result, acc, probe_log>>

\* time.time() is not monotonic: the wall clock is set back.
ClockSetBack ==
    /\ clock - ClockStep >= ClockOrigin
    /\ clock' = clock - ClockStep
    /\ UNCHANGED <<others, snapshot, kind, config, mgr, lock, primaryAlive, pc, op,
                   current_time, result, acc, probe_log>>

\* The primary backend stops or starts answering probes.
PrimaryFails ==
    /\ primaryAlive
    /\ primaryAlive' = FALSE
    /\ UNCHANGED <<others, snapshot, kind, config, mgr, lock, clock, pc, op, current_time,
                   result, acc, probe_log>>

PrimaryRecovers ==
    /\ ~primaryAlive
    /\ primaryAlive' = TRUE
    /\ UNCHANGED <<others, snapshot, kind, config, mgr, lock, clock, pc, op, current_time,
                   result, acc, probe_log>>

Step(t) ==
    \/ Call(t)
    \/ AcquireLock(t)
    \/ ReadClock(t)
    \/ ThrottleCheck(t)
    \/ SwitchBack(t)
    \/ SwitchBackSetCurrent(t)
    \/ SwitchBackSetHealthy(t)
    \/ SwitchBackBind(t)
    \/ CheckPrimary(t)
    \/ FailoverSetCurrent(t)
    \/ FailoverSetHealthy(t)
    \/ FailoverBind(t)
    \/ GetSession(t)
    \/ GetEngine(t)
    \/ GetDatabase(t)
    \/ GetClient(t)
    \/ Return(t)

Next ==
    \/ \E t \in Threads : Step(t)
    \/ Tick
    \/ ClockSetBack
    \/ PrimaryFails
    \/ PrimaryRecovers

Spec == Init /\ [][Next]_vars

\* The manager with get_status callers next to the locking accesses.
StatusStep(t) ==
    \/ CallStatus(t)
    \/ StatusUsing(t)
    \/ StatusHealthy(t)
    \/ StatusLabel(t)

StatusNext ==
    \/ Next
    \/ \E t \in Threads : StatusStep(t)

StatusSpec == Init /\ [][StatusNext]_vars

\* ---------------------------------------------------------------- get_db
\* The request dependency: app.db.postgres.get_db delegating to the failover
\* get_db, with the legacy SessionLocal as its except branch.

\* A session object: whether it exists / is open, and how often close() ran.
NoSession == [state |-> "none", closes |-> 0]
Opened == [state |-> "open", closes |-> 0]

\* (bug variant: the generator has no finally clause)
CloseSkipped(s) == s

\* finally: db.close()
Close(s) == [state |-> "closed", closes |-> s.closes + 1]

\* SessionLocal after init_db(): a sessionmaker only if POSTGRES_URL is set
\* and create_engine accepted it.
SessionLocal ==
    IF config.fallback_url /\ ~config.fallback_raises THEN "Legacy" ELSE "None"

\* What the request body can raise into the generator.
BodyExceptions == {"RuntimeError", "ImportError", "HTTPException"}

\* except (ImportError, RuntimeError):
Caught(e) == e \in {"ImportError", "RuntimeError"}

NoRequest == [phase |-> "idle", failover |-> NoSession, legacy |-> NoSession,
              thrown |-> FALSE, raised |-> "none", outcome |-> "none"]

GetDbInit ==
    /\ InitManager
    /\ kind = "postgres"
    /\ getdb = [t \in Threads |-> NoRequest]
    /\ health = HealthOff
    /\ mfa = MfaOff
    /\ social = SocialOff

\* The worker thread is done with the outcome of get_session.
GetDbReturn(t) ==
    /\ Goto(t, "idle")
    /\ op' = [op EXCEPT ![t] = "none"]
    /\ current_time' = [current_time EXCEPT ![t] = 0]
    /\ result' = [result EXCEPT ![t] = NoResult]
    /\ acc' = [acc EXCEPT ![t] = NoAccess]
    /\ UNCHANGED <<health, mfa, social, snapshot, kind, config, mgr, lock, clock,
                   primaryAlive, probe_log>>

GetDbFrame == <<health, mfa, social, snapshot, kind, config, mgr, lock, clock,
                primaryAlive, pc, op, current_time, result, acc, probe_log>>

\* A request starts: yield from get_db_failover() calls
\* postgres_failover.get_session().
GetDbEnter(t) ==
    /\ pc[t] = "idle"
    /\ getdb[t].phase \in {"idle", "ended"}
    /\ getdb' = [getdb EXCEPT ![t] = [NoRequest EXCEPT !.phase = "acquiring"]]
    /\ op' = [op EXCEPT ![t] = "get_session"]
    /\ Goto(t, "acquire")
    /\ UNCHANGED <<health, mfa, social, snapshot, kind, config, mgr, lock, clock,
                   primaryAlive, current_time, result, acc, probe_log>>

\* db = postgres_failover.get_session(); try: yield db
GetDbYield(t) ==
    /\ getdb[t].phase = "acquiring"
    /\ pc[t] = "done"
    /\ result[t].status = "returned"
    /\ getdb' = [getdb EXCEPT ![t].failover = Opened, ![t].phase = "body"]
    /\ GetDbReturn(t)

\* get_session raised RuntimeError before the try: nothing is yielded, and
\* the except clause of the outer get_db catches it.
GetDbAcquireFailed(t) ==
    /\ getdb[t].phase = "acquiring"
    /\ pc[t] = "done"
    /\ result[t] = Raised
    /\ getdb' = [getdb EXCEPT ![t].phase = "legacy"]
    /\ GetDbReturn(t)

\* The request body completes: the generator is resumed, finally closes the
\* session and the generator returns.
GetDbBodyReturns(t) ==
    /\ getdb[t].phase = "body"
    /\ getdb' = [getdb EXCEPT ![t].failover = Close(@), ![t].phase = "ended",
                              ![t].outcome = "ok"]
    /\ UNCHANGED GetDbFrame

\* The request body raises: the exception is thrown in at the yield, finally
\* closes the session, and the exception leaves `yield from`, where the
\* except clause of the outer get_db catches ImportError and RuntimeError.
GetDbBodyRaises(t) ==
    /\ getdb[t].phase = "body"
    /\ \E e \in BodyExceptions :
          getdb' = [getdb EXCEPT ![t].failover = Close(@),
                                 ![t].thrown = TRUE,
                                 ![t].raised = e,
                                 ![t].phase = IF Caught(e) THEN "legacy" ELSE "ended",
                                 ![t].outcome = IF Caught(e) THEN "none" ELSE e]
    /\ UNCHANGED GetDbFrame

\* if SessionLocal is None: raise RuntimeError("Database not initialized")
\* db = SessionLocal(); try: yield db
\* A yield that follows a throw is not delivered to any request: the
\* generator stays suspended there until it is closed.
GetDbLegacy(t) ==
    /\ getdb[t].phase = "legacy"
    /\ IF SessionLocal = "None"
       THEN getdb' = [getdb EXCEPT ![t].phase = "ended",
                                   ![t].outcome = "RuntimeError: Database not initialized"]
       ELSE getdb' = [getdb EXCEPT ![t].legacy = Opened,
                                   ![t].phase = IF getdb[t].thrown
                                                THEN "suspended"
                                                ELSE "legacy_body"]
    /\ UNCHANGED GetDbFrame

\* The body of a request served by a legacy session completes or raises:
\* finally closes the session, nothing catches what the body raised.
GetDbLegacyReturns(t) ==
    /\ getdb[t].phase = "legacy_body"
    /\ getdb' = [getdb EXCEPT ![t].legacy = Close(@), ![t].phase = "ended",
                              ![t].outcome = "ok"]
    /\ UNCHANGED GetDbFrame

GetDbLegacyRaises(t) ==
    /\ getdb[t].phase = "legacy_body"
    /\ \E e \in BodyExceptions :
          getdb' = [getdb EXCEPT ![t].legacy = Close(@), ![t].thrown = TRUE,
                                 ![t].raised = e,
                                 ![t].phase = "ended", ![t].outcome = e]
    /\ UNCHANGED GetDbFrame

\* The suspended generator is closed (gen.close() or deallocation):
\* GeneratorExit is raised at the yield and finally closes the session.
GetDbFinalize(t) ==
    /\ getdb[t].phase = "suspended"
    /\ getdb' = [getdb EXCEPT ![t].legacy = Close(@), ![t].phase = "ended",
                              ![t].outcome = "RuntimeError: generator didn't stop after throw()"]
    /\ UNCHANGED GetDbFrame

GetDbStep(t) ==
    \/ GetDbEnter(t)
    \/ AcquireLock(t)
    \/ ReadClock(t)
    \/ ThrottleCheck(t)
    \/ SwitchBack(t)
    \/ SwitchBackSetCurrent(t)
    \/ SwitchBackSetHealthy(t)
    \/ SwitchBackBind(t)
    \/ CheckPrimary(t)
    \/ FailoverSetCurrent(t)
    \/ FailoverSetHealthy(t)
    \/ FailoverBind(t)
    \/ GetSession(t)
    \/ GetDbYield(t)
    \/ GetDbAcquireFailed(t)
    \/ GetDbBodyReturns(t)
    \/ GetDbBodyRaises(t)
    \/ GetDbLegacy(t)
    \/ GetDbLegacyReturns(t)
    \/ GetDbLegacyRaises(t)
    \/ GetDbFinalize(t)

GetDbNext ==
    \/ \E t \in Threads : GetDbStep(t)
    \/ Tick
    \/ PrimaryFails
    \/ PrimaryRecovers

GetDbSpec == GetDbInit /\ [][GetDbNext]_vars

\* ------------------------------------------------------- database_health
\* The three module-level managers as database_health sees them, and the
\* backends behind their pools.

\* The single manager of the other specifications, left unconfigured and
\* never accessed.
ManagerUnused ==
    /\ InitManager
    /\ kind = "postgres"
    /\ config = [primary_url |-> FALSE, fallback_url |-> FALSE,
                 primary_raises |-> FALSE, fallback_raises |-> FALSE]
    /\ primaryAlive

\* The fields of one manager that get_status reads.
ManagerOf(k, c) ==
    LET m == InitializeClients(k, c)
    IN [primary |-> m.primary, fallback |-> m.fallback, current |-> m.current,
        healthy |-> TRUE]

\* _check_and_switch of one manager, run under the lock once the interval
\* has elapsed; alive is what a probe of the primary finds.
CheckAndSwitch(m, alive) ==
    IF m.current = m.fallback /\ m.primary # "None" /\ alive
    THEN [m EXCEPT !.current = m.primary, !.healthy = TRUE]
    ELSE IF /\ m.current = m.primary
            /\ ~(m.primary # "None" /\ alive)
            /\ m.fallback # "None"
    THEN [m EXCEPT !.current = m.fallback, !.healthy = FALSE]
    ELSE m

\* get_status()
GetStatus(k, m) ==
    [using_primary |-> Str(m.current = m.primary),
     primary_available |-> Str(m.primary # "None"),
     fallback_available |-> Str(m.fallback # "None"),
     primary_healthy |-> IF m.primary # "None" THEN Str(m.healthy) ELSE "None",
     current_db |-> IF m.current = m.primary THEN PrimaryLabel(k)
                    ELSE FallbackLabel(k)]

\* status.get("primary_available") or status.get("fallback_available")
Available(status) ==
    status.primary_available = "True" \/ status.fallback_available = "True"

\* (bug variant: any() in place of all())
OverallStatusAny(statuses) ==
    IF \E k \in Kinds : Available(statuses[k]) THEN "healthy" ELSE "degraded"

\* "healthy" if all([...]) else "degraded"
OverallStatus(statuses) ==
    IF \A k \in Kinds : Available(statuses[k]) THEN "healthy" ELSE "degraded"

\* Whether some pool of manager k has a backend that answers right now.
BackendUsable(k) ==
    \/ health.mgrs[k].primary # "None" /\ health.alive[k].primary
    \/ health.mgrs[k].fallback # "None" /\ health.alive[k].fallback

NoReport == [k \in Kinds |-> NoSnapshot]

HealthInit ==
    /\ ManagerUnused
    /\ getdb = GetDbOff
    /\ mfa = MfaOff
    /\ social = SocialOff
    /\ \E cs \in [Kinds -> Configs] :
       \E al \in [Kinds -> [primary : BOOLEAN, fallback : BOOLEAN]] :
          health = [phase |-> "idle",
                    mgrs |-> [k \in Kinds |-> ManagerOf(k, cs[k])],
                    alive |-> al,
                    statuses |-> NoReport,
                    usable |-> [k \in Kinds |-> TRUE],
                    overall |-> "none"]

HealthFrame == <<getdb, mfa, social, snapshot, kind, config, mgr, lock, clock,
                 primaryAlive, pc, op, current_time, result, acc, probe_log>>

\* Some request accesses manager k after its interval has elapsed.
HealthAccess(k) ==
    /\ health' = [health EXCEPT
                    !.mgrs[k] = CheckAndSwitch(@, health.alive[k].primary)]
    /\ health'.mgrs[k] # health.mgrs[k]
    /\ UNCHANGED HealthFrame

\* A backend stops or starts answering.
BackendFails(k, role) ==
    /\ health.alive[k][role]
    /\ health' = [health EXCEPT !.alive[k][role] = FALSE]
    /\ UNCHANGED HealthFrame

BackendRecovers(k, role) ==
    /\ ~health.alive[k][role]
    /\ health' = [health EXCEPT !.alive[k][role] = TRUE]
    /\ UNCHANGED HealthFrame

\* GET /health/databases
DatabaseHealthCall ==
    /\ health.phase \in {"idle", "reported"}
    /\ health' = [health EXCEPT !.phase = "postgres", !.statuses = NoReport,
                                !.usable = [k \in Kinds |-> TRUE],
                                !.overall = "none"]
    /\ UNCHANGED HealthFrame

\* One of the three get_*_status() calls.
ReadStatus(k, next) ==
    /\ health' = [health EXCEPT !.statuses[k] = GetStatus(k, health.mgrs[k]),
                                !.usable[k] = BackendUsable(k),
                                !.phase = next]
    /\ UNCHANGED HealthFrame

\* postgres_status = get_postgres_status()
ReadPostgres ==
    /\ health.phase = "postgres"
    /\ ReadStatus("postgres", "mongo")
\* mongo_status = get_mongo_status()
ReadMongo ==
    /\ health.phase = "mongo"
    /\ ReadStatus("mongo", "redis")
\* redis_status = get_redis_status()
ReadRedis ==
    /\ health.phase = "redis"
    /\ ReadStatus("redis", "return")

\* return {..., "overall_status": ...}
HealthReturn ==
    /\ health.phase = "return"
    /\ health' = [health EXCEPT !.overall = OverallStatus(health.statuses),
                                !.phase = "reported"]
    /\ UNCHANGED HealthFrame

HealthNext ==
    \/ \E k \in Kinds : HealthAccess(k)
    \/ \E k \in Kinds : \E role \in {"primary", "fallback"} : BackendFails(k, role)
    \/ \E k \in Kinds : \E role \in {"primary", "fallback"} : BackendRecovers(k, role)
    \/ DatabaseHealthCall
    \/ ReadPostgres
    \/ ReadMongo
    \/ ReadRedis
    \/ HealthReturn

HealthSpec == HealthInit /\ [][HealthNext]_vars

\* ------------------------------------------------------------------ mfa
\* The MFA endpoints of one user.  A code is the sequence of its characters.

RecoveryCount == 2
NumRequests == 2

MinLength == 6
MaxLength == 6
TotpLength == 6
RawLength == 8
GroupLength == 4

Digits == {"0", "1", "2", "3", "4", "5", "6", "7", "8", "9"}

\* str.isdigit()
IsDigit(code) == Len(code) > 0 /\ \A i \in 1..Len(code) : code[i] \in Digits

\* '-' in code
HasHyphen(code) == \E i \in 1..Len(code) : code[i] = "-"

\* code.replace(' ', '').replace('-', '').strip()
IsCodeChar(c) == c \notin {" ", "-"}
Clean(code) == SelectSeq(code, IsCodeChar)

\* 8 characters drawn from the alphabet of generate_recovery_codes
RawCodes ==
    { <<"A", "B", "C", "D", "E", "F", "G", "H">>,
      <<"2", "3", "4", "5", "6", "7", "8", "9">> }

\* f"{code[:4]}-{code[4:]}"
FormatCode(code) ==
    SubSeq(code, 1, GroupLength) \o <<"-">> \o SubSeq(code, GroupLength + 1, RawLength)

\* generate_recovery_codes(count): the lists it can return
GenerateRecoveryCodes(count) ==
    [1..count -> {FormatCode(raw) : raw \in RawCodes}]

\* The codes the authenticator can currently show.
TotpCodes ==
    { <<"1", "2", "3", "4", "5", "6">>, <<"6", "5", "4", "3", "2", "1">> }

\* What a client can submit as request.code.
SubmittedCodes ==
    TotpCodes \cup {FormatCode(raw) : raw \in RawCodes}
        \cup { <<"A", "B", "C", "D", "E", "F">>, <<"1", "2", "-", "3", "4", "5">>,
               <<"1", "2", "3">> }

\* Field(..., min_length=6, max_length=6)
ValidRequest(code) == Len(code) >= MinLength /\ Len(code) <= MaxLength

\* verify_totp_code(secret, code)
VerifyTotpCode(secret, code, now) ==
    LET clean_code == Clean(code)
    IN /\ Len(clean_code) = TotpLength
       /\ IsDigit(clean_code)
       /\ secret # "None"
       /\ clean_code = now

\* code in recovery_codes
InCodes(code, codes) == \E i \in 1..Len(codes) : codes[i] = code

\* recovery_codes.remove(code): the first occurrence goes
RECURSIVE Remove(_, _)
Remove(codes, code) ==
    IF codes = <<>> THEN <<>>
    ELSE IF Head(codes) = code THEN Tail(codes)
    ELSE <<Head(codes)>> \o Remove(Tail(codes), code)

NoUser == [mfa_enabled |-> FALSE, mfa_secret |-> "None", mfa_recovery_codes |-> <<>>]

\* The /auth/mfa/verify requests in flight, each with the User row its own
\* session loaded.
Requests == 1..NumRequests
NoLogin == [phase |-> "idle", code |-> <<>>, user |-> NoUser]

\* How often each recovery code was accepted since the codes were last
\* generated.
NoAccepts == [code \in {FormatCode(raw) : raw \in RawCodes} |-> 0]
NoResponse == [endpoint |-> "none", code |-> <<>>, status |-> 0, held |-> FALSE]

MfaInit ==
    /\ ManagerUnused
    /\ health = HealthOff
    /\ getdb = GetDbOff
    /\ social = SocialOff
    /\ \E now \in TotpCodes :
          mfa = [user |-> NoUser, now |-> now, last |-> NoResponse,
                 reqs |-> [r \in Requests |-> NoLogin],
                 accepts |-> NoAccepts,
                 password_tokens |-> {}]

MfaFrame == <<health, getdb, social, snapshot, kind, config, mgr, lock, clock,
              primaryAlive, pc, op, current_time, result, acc, probe_log>>

Response(endpoint, code, status) ==
    [endpoint |-> endpoint, code |-> code, status |-> status,
     held |-> mfa.user.mfa_enabled /\ InCodes(code, mfa.user.mfa_recovery_codes)]

\* POST /mfa/setup
SetupMfa ==
    /\ IF mfa.user.mfa_enabled
       THEN mfa' = [mfa EXCEPT !.last = Response("setup", <<>>, 400)]
       ELSE \E codes \in GenerateRecoveryCodes(RecoveryCount) :
               mfa' = [mfa EXCEPT !.user.mfa_secret = "secret",
                                  !.user.mfa_recovery_codes = codes,
                                  !.accepts = NoAccepts,
                                  !.last = Response("setup", <<>>, 200)]
    /\ UNCHANGED MfaFrame

\* POST /mfa/enable
EnableMfa(code) ==
    /\ IF ~ValidRequest(code)
       THEN mfa' = [mfa EXCEPT !.last = Response("enable", code, 422)]
       ELSE IF \/ mfa.user.mfa_enabled
               \/ mfa.user.mfa_secret = "None"
               \/ ~VerifyTotpCode(mfa.user.mfa_secret, code, mfa.now)
       THEN mfa' = [mfa EXCEPT !.last = Response("enable", code, 400)]
       ELSE mfa' = [mfa EXCEPT !.user.mfa_enabled = TRUE,
                               !.last = Response("enable", code, 200)]
    /\ UNCHANGED MfaFrame

\* POST /mfa/disable
DisableMfa(code) ==
    /\ IF ~ValidRequest(code)
       THEN \* the request model rejects the body; the handler does not run
            mfa' = [mfa EXCEPT !.last = Response("disable", code, 422)]
       ELSE IF ~mfa.user.mfa_enabled
       THEN mfa' = [mfa EXCEPT !.last = Response("disable", code, 400)]
       ELSE IF Len(code) = TotpLength /\ IsDigit(code)
       THEN IF VerifyTotpCode(mfa.user.mfa_secret, code, mfa.now)
            THEN mfa' = [mfa EXCEPT !.user = NoUser,
                                    !.accepts = NoAccepts,
                                    !.last = Response("disable", code, 200)]
            ELSE mfa' = [mfa EXCEPT !.last = Response("disable", code, 400)]
       ELSE IF HasHyphen(code) /\ InCodes(code, mfa.user.mfa_recovery_codes)
       THEN \* verify_recovery_code consumed the code, disable_mfa clears all
            mfa' = [mfa EXCEPT !.user = NoUser,
                               !.accepts = NoAccepts,
                               !.last = Response("disable", code, 200)]
       ELSE mfa' = [mfa EXCEPT !.last = Response("disable", code, 400)]
    /\ UNCHANGED MfaFrame

\* POST /mfa/recovery-codes/regenerate
RegenerateRecoveryCodes(code) ==
    /\ IF ~ValidRequest(code)
       THEN mfa' = [mfa EXCEPT !.last = Response("regenerate", code, 422)]
       ELSE IF \/ ~mfa.user.mfa_enabled
               \/ ~VerifyTotpCode(mfa.user.mfa_secret, code, mfa.now)
       THEN mfa' = [mfa EXCEPT !.last = Response("regenerate", code, 400)]
       ELSE \E codes \in GenerateRecoveryCodes(RecoveryCount) :
               mfa' = [mfa EXCEPT !.user.mfa_recovery_codes = codes,
                                  !.accepts = NoAccepts,
                                  !.last = Response("regenerate", code, 200)]
    /\ UNCHANGED MfaFrame

\* The authenticator moves on to another code.
TotpRolls ==
    /\ \E now \in TotpCodes \ {mfa.now} : mfa' = [mfa EXCEPT !.now = now]
    /\ UNCHANGED MfaFrame

MfaNext ==
    \/ SetupMfa
    \/ \E code \in SubmittedCodes : EnableMfa(code)
    \/ \E code \in SubmittedCodes : DisableMfa(code)
    \/ \E code \in SubmittedCodes : RegenerateRecoveryCodes(code)
    \/ TotpRolls

MfaSpec == MfaInit /\ [][MfaNext]_vars

\* ----------------------------------------------------------------- auth
\* The login endpoints of the same user.

\* /auth/token has no MFA test between authenticate_user and
\* create_access_token.
TokenMfaRequired(user) == FALSE

\* if user.mfa_enabled and user.mfa_secret:
LoginMfaRequired(user) == user.mfa_enabled /\ user.mfa_secret # "None"

\* An access token was created by `endpoint` for a user who passed only the
\* password check.
PasswordToken(endpoint) ==
    IF mfa.user.mfa_enabled /\ mfa.user.mfa_secret # "None"
    THEN mfa.password_tokens \cup {endpoint}
    ELSE mfa.password_tokens

\* POST /auth/login
Login(password_ok) ==
    /\ IF ~password_ok
       THEN mfa' = [mfa EXCEPT !.last = Response("login", <<>>, 401)]
       ELSE IF LoginMfaRequired(mfa.user)
       THEN \* {"mfa_required": True, ...}: no token
            mfa' = [mfa EXCEPT !.last = Response("login_mfa_required", <<>>, 200)]
       ELSE mfa' = [mfa EXCEPT !.password_tokens = PasswordToken("login"),
                               !.last = Response("login", <<>>, 200)]
    /\ UNCHANGED MfaFrame

\* POST /auth/token
LoginForAccessToken(password_ok) ==
    /\ IF ~password_ok
       THEN mfa' = [mfa EXCEPT !.last = Response("token", <<>>, 401)]
       ELSE IF TokenMfaRequired(mfa.user)
       THEN mfa' = [mfa EXCEPT !.last = Response("token_mfa_required", <<>>, 200)]
       ELSE mfa' = [mfa EXCEPT !.password_tokens = PasswordToken("token"),
                               !.last = Response("token", <<>>, 200)]
    /\ UNCHANGED MfaFrame

\* POST /auth/mfa/verify, first part: user = get_user_by_user_id(db, ...)
\* loads the row into the session of this request.
VerifyMfaLoad(r, code) ==
    /\ mfa.reqs[r].phase = "idle"
    /\ mfa' = [mfa EXCEPT !.reqs[r] = [phase |-> "loaded", code |-> code,
                                       user |-> mfa.user]]
    /\ UNCHANGED MfaFrame

\* verify_recovery_code: what is committed as user.mfa_recovery_codes
CodesAfterUse(codes, code) == Remove(codes, code)

\* POST /auth/mfa/verify, second part: the checks on the loaded row,
\* verify_totp_code or verify_recovery_code (which commits the shortened
\* list), create_access_token.
VerifyMfaLogin(r) ==
    /\ mfa.reqs[r].phase = "loaded"
    /\ LET user == mfa.reqs[r].user
           code == mfa.reqs[r].code
       IN IF ~user.mfa_enabled
          THEN mfa' = [mfa EXCEPT !.reqs[r] = NoLogin,
                                  !.last = Response("mfa_verify", code, 400)]
          ELSE IF Len(code) = TotpLength /\ IsDigit(code)
          THEN mfa' = [mfa EXCEPT
                         !.reqs[r] = NoLogin,
                         !.last = Response("mfa_verify", code,
                                     IF VerifyTotpCode(user.mfa_secret, code, mfa.now)
                                     THEN 200 ELSE 401)]
          ELSE IF HasHyphen(code) /\ InCodes(code, user.mfa_recovery_codes)
          THEN mfa' = [mfa EXCEPT
                         !.reqs[r] = NoLogin,
                         !.user.mfa_recovery_codes =
                             CodesAfterUse(user.mfa_recovery_codes, code),
                         !.accepts[code] = IF @ < 2 THEN @ + 1 ELSE @,
                         !.last = Response("mfa_verify", code, 200)]
          ELSE mfa' = [mfa EXCEPT !.reqs[r] = NoLogin,
                                  !.last = Response("mfa_verify", code, 401)]
    /\ UNCHANGED MfaFrame

\* What a client submits to /auth/mfa/verify: the code must be a string.
LoginCodes == TotpCodes \cup {FormatCode(raw) : raw \in RawCodes}

\* A user who never set MFA up, or one who went through /mfa/setup and
\* /mfa/enable.
Users ==
    {NoUser} \cup
    {[mfa_enabled |-> TRUE, mfa_secret |-> "secret", mfa_recovery_codes |-> codes] :
        codes \in GenerateRecoveryCodes(RecoveryCount)}

AuthInit ==
    /\ ManagerUnused
    /\ health = HealthOff
    /\ getdb = GetDbOff
    /\ social = SocialOff
    /\ \E now \in TotpCodes : \E user \in Users :
          mfa = [user |-> user, now |-> now, last |-> NoResponse,
                 reqs |-> [r \in Requests |-> NoLogin],
                 accepts |-> NoAccepts,
                 password_tokens |-> {}]

AuthNext ==
    \/ \E code \in TotpCodes : RegenerateRecoveryCodes(code)
    \/ \E password_ok \in BOOLEAN : Login(password_ok)
    \/ \E password_ok \in BOOLEAN : LoginForAccessToken(password_ok)
    \/ \E r \in Requests : \E code \in LoginCodes : VerifyMfaLoad(r, code)
    \/ \E r \in Requests : VerifyMfaLogin(r)

AuthSpec == AuthInit /\ [][AuthNext]_vars

\* --------------------------------------------------------------- social
\* The comment part of the social graph (services/social): Comment nodes
\* with their ON, REPLIES_TO and WROTE relationships.

MaxComments == 3

\* comment_id = f"comment_{uuid.uuid4().hex[:12]}": ids are never reused
CommentIds == 1..MaxComments
\* parent_comment_id = None
NoParent == 0
Authors == {"u1", "u2"}
Posts == {"p1", "p2"}

NoCount == [asked |-> FALSE, post |-> "none", value |-> 0, total |-> 0]

SocialInit ==
    /\ ManagerUnused
    /\ health = HealthOff
    /\ getdb = GetDbOff
    /\ mfa = MfaOff
    /\ social = [next |-> 1, nodes |-> {}, on |-> {}, replies_to |-> {},
                 wrote |-> {}, count |-> NoCount]

SocialFrame == <<health, getdb, mfa, snapshot, kind, config, mgr, lock, clock,
                 primaryAlive, pc, op, current_time, result, acc, probe_log>>

\* create_comment(comment_id, user_id, post_id, text, parent_comment_id)
CreateComment(user, post, parent) ==
    /\ social.next <= MaxComments
    /\ LET comment == social.next
       IN IF parent # NoParent
          THEN \* MERGE parent, MERGE comment, (user)-[:WROTE]->(comment),
               \* (comment)-[:REPLIES_TO]->(parent)
               social' = [social EXCEPT
                            !.next = @ + 1,
                            !.nodes = @ \cup {parent, comment},
                            !.wrote = @ \cup {<<user, comment>>},
                            !.replies_to = @ \cup {<<comment, parent>>}]
          ELSE \* MERGE post, MERGE comment, (user)-[:WROTE]->(comment),
               \* (comment)-[:ON]->(post)
               social' = [social EXCEPT
                            !.next = @ + 1,
                            !.nodes = @ \cup {comment},
                            !.wrote = @ \cup {<<user, comment>>},
                            !.on = @ \cup {<<comment, post>>}]
    /\ UNCHANGED SocialFrame

\* delete_comment(comment_id, user_id):
\* MATCH (user)-[:WROTE]->(comment) DETACH DELETE comment
DeleteComment(comment, user) ==
    /\ comment \in social.nodes
    /\ <<user, comment>> \in social.wrote
    /\ social' = [social EXCEPT
                    !.nodes = @ \ {comment},
                    !.wrote = {e \in @ : e[2] # comment},
                    !.on = {e \in @ : e[1] # comment},
                    !.replies_to = {e \in @ : e[1] # comment /\ e[2] # comment}]
    /\ UNCHANGED SocialFrame

\* MATCH (comment:Comment)-[:ON]->(post {post_id}) RETURN count(comment)
CountOn(post) ==
    Cardinality({comment \in social.nodes : <<comment, post>> \in social.on})

\* The existing top-level comments of a post and the existing replies to
\* them.
TopLevel(post) == {comment \in social.nodes : <<comment, post>> \in social.on}
RepliesTo(comments) ==
    {reply \in social.nodes :
        \E comment \in comments : <<reply, comment>> \in social.replies_to}

\* get_comment_count(post_id)
GetCommentCount(post) ==
    /\ social' = [social EXCEPT
                    !.count = [asked |-> TRUE, post |-> post,
                               value |-> CountOn(post),
                               total |-> Cardinality(TopLevel(post))
                                         + Cardinality(RepliesTo(TopLevel(post)))]]
    /\ UNCHANGED SocialFrame

SocialNext ==
    \/ \E user \in Authors : \E post \in Posts :
       \E parent \in {NoParent} \cup 1..(social.next - 1) :
          CreateComment(user, post, parent)
    \/ \E comment \in CommentIds : \E user \in Authors : DeleteComment(comment, user)
    \/ \E post \in Posts : GetCommentCount(post)

SocialSpec == SocialInit /\ [][SocialNext]_vars

\* Every thread that can take a step eventually does (threads are scheduled,
\* and a lock holder always releases the lock).
FairSpec == Spec /\ \A t \in Threads : WF_vars(Step(t))

\* In addition, a thread that finds the lock free again and again gets it.
LockFairSpec ==
    Spec /\ \A t \in Threads : WF_vars(Step(t)) /\ SF_vars(AcquireLock(t))

TypeOK ==
    /\ kind \in Kinds
    /\ config \in Configs
    /\ primary_client \in {"None", "Primary"}
    /\ fallback_client \in {"None", "Fallback"}
    /\ current_client \in Pools
    /\ session_factory \in Pools
    /\ current_database \in [client : Pools, name : {"None", AtlasOrLocalName, LocalName}]
    /\ lock \subseteq Threads
    /\ last_health_check \in 0..MaxClock
    /\ primary_healthy \in BOOLEAN
    /\ clock \in 0..MaxClock
    /\ primaryAlive \in BOOLEAN
    /\ pc \in [Threads -> Section \cup {"idle", "acquire", "done", "st_using",
                                      "st_healthy", "st_label"}]
    /\ current_time \in [Threads -> 0..MaxClock]
    /\ \A t \in Threads : result[t].status \in {"none", "returned", "RuntimeError"}
    /\ \A t \in Threads : acc[t].probes \in 0..2

\* ------------------------------------------------------------ properties
\* The manager states of the specification.
Unusable == primary_client = "None" /\ fallback_client = "None"

\* Thread t has finished an access and no role transition happened since.
Fresh(t) == pc[t] = "done" /\ ~acc[t].stale

\* Thread t's access ran the throttled check: it read the clock at least
\* one interval after the last check.
IntervalElapsed(t) == current_time[t] - acc[t].start_last >= HealthCheckInterval

\* C1: whenever the active pool is the fallback, the primary pool is absent
\* or the most recent probe of the primary was unhealthy.  It holds in every
\* state but the one between the healthy probe of a switch-back and the
\* assignment that follows it under the lock.
C1_FallbackOnlyIfPrimaryDown ==
    (current_client = "Fallback" /\ \A t \in Threads : pc[t] # "sb_current")
        => (primary_client = "None" \/ probe_log.last = "unhealthy")

C1_Witness ==
    /\ current_client = "Fallback"
    /\ primary_client = "Primary"
    /\ probe_log.last = "unhealthy"
    /\ lock = {}
    /\ \E t \in Threads : pc[t] = "done" /\ result[t] = Returned("Fallback")

\* C2: an access that starts with the primary active and a fallback
\* configured, reads the clock at least one interval after the last check
\* and does not find the primary healthy, hands out the fallback and leaves
\* the fallback active.
C2_FailOver ==
    \A t \in Threads :
        ( /\ pc[t] = "done"
          /\ acc[t].start_current = "Primary"
          /\ fallback_client = "Fallback"
          /\ IntervalElapsed(t)
          /\ acc[t].probe # "healthy" )
        => /\ result[t] = Returned("Fallback")
           /\ acc[t].switched
           /\ ~acc[t].stale => current_client = "Fallback"

C2_Witness ==
    \E t \in Threads :
        /\ Fresh(t)
        /\ acc[t].start_current = "Primary"
        /\ IntervalElapsed(t)
        /\ acc[t].probe = "unhealthy"
        /\ result[t] = Returned("Fallback")
        /\ current_client = "Fallback"

\* C3: after an access whose check probed the primary healthy, the primary
\* is the active pool and primary_healthy is true; in particular an access
\* that started on the fallback has switched back.
C3_AutoRecovery ==
    \A t \in Threads :
        (Fresh(t) /\ acc[t].probe = "healthy")
        => /\ current_client = "Primary"
           /\ primary_healthy
           /\ acc[t].start_current = "Fallback" => acc[t].switched

C3_Witness ==
    \E t \in Threads :
        /\ Fresh(t)
        /\ acc[t].start_current = "Fallback"
        /\ acc[t].probe = "healthy"
        /\ current_client = "Primary"
        /\ primary_healthy
        /\ ~acc[t].start_healthy

\* C4: two consecutive probes of one manager are at least one interval
\* apart by the clock values their accesses read, and no access makes more
\* than one probe.
C4_Throttle ==
    /\ [][\A t \in Threads :
            (acc'[t].probes = acc[t].probes + 1 /\ probe_log.count > 0)
            => current_time[t] - probe_log.last_at >= HealthCheckInterval]_vars
    /\ [](\A t \in Threads : acc[t].probes <= 1)

C4_Witness ==
    /\ probe_log.count = 2
    /\ \E t, u \in Threads :
        /\ pc[t] = "done" /\ acc[t].probes = 1
        /\ pc[u] = "done" /\ acc[u].probes = 0 /\ ~acc[u].checked

\* C5: a handle returned after the last role transition is bound to the
\* active pool, so two such handles are bound to the same pool; and outside
\* the critical section the session factory (postgres) and the current
\* database (mongo) belong to the active pool.
C5_NoTornState ==
    /\ \A t \in Threads :
        (Fresh(t) /\ result[t].status = "returned")
            => result[t].pool = current_client
    /\ lock = {} =>
        /\ kind = "postgres" => session_factory = current_client
        /\ kind = "mongo" => current_database.client = current_client

C5_Witness ==
    \E t, u \in Threads :
        /\ t # u
        /\ Fresh(t) /\ acc[t].switched
        /\ Fresh(u) /\ ~acc[u].switched
        /\ op[t] \in {"get_session", "get_database"}
        /\ op[u] \in {"get_session", "get_database"}
        /\ result[t] = Returned("Fallback")
        /\ result[u] = Returned("Fallback")

\* C6: at most one thread is inside the critical section, and every write
\* to the active pool, the primary-healthy flag and the last-health-check
\* timestamp is made by a thread that holds the lock.
C6_Serialized ==
    /\ [](Cardinality({t \in Threads : pc[t] \in Section}) <= 1)
    /\ [][<<current_client, primary_healthy, last_health_check>>'
              # <<current_client, primary_healthy, last_health_check>>
          => \E t \in Threads :
                t \in lock /\ pc[t] \in Section /\ pc'[t] # pc[t]]_vars

C6_Witness ==
    \E t, u \in Threads :
        /\ pc[t] = "fo_healthy" /\ lock = {t}
        /\ pc[u] = "acquire"

\* C7: with neither pool present, every acquisition (get_session,
\* get_database, get_collection, redis get_client) ends with the
\* RuntimeError and hands out nothing.
Acquisition(t) ==
    \/ op[t] \in {"get_session", "get_database", "get_collection"}
    \/ kind = "redis" /\ op[t] = "get_client"

C7_UnusableAlwaysFails ==
    \A t \in Threads :
        (pc[t] = "done" /\ Unusable /\ Acquisition(t)) => result[t] = Raised

C7_Witness ==
    \E t \in Threads :
        /\ pc[t] = "done"
        /\ ~config.primary_url /\ ~config.fallback_url
        /\ Acquisition(t)
        /\ acc[t].checked
        /\ result[t] = Raised

\* C8: the active-pool accessor (postgres get_engine, mongo get_client,
\* redis get_client) raises whenever the manager is Unusable.
ActivePoolAccessor(t) == op[t] \in {"get_engine", "get_client"}

C8_AccessorRaisesWhenUnusable ==
    \A t \in Threads :
        (pc[t] = "done" /\ Unusable /\ ActivePoolAccessor(t))
            => result[t] = Raised

\* C9: after construction the manager uses the primary if the primary pool
\* exists, otherwise the fallback if that exists, otherwise no pool.
Constructed == last_health_check = 0 /\ \A t \in Threads : pc[t] \in {"idle", "acquire"}

C9_InitialState ==
    Constructed =>
        current_client = (IF primary_client # "None" THEN "Primary"
                          ELSE IF fallback_client # "None" THEN "Fallback"
                          ELSE "None")

\* C10: if the primary pool exists and, from some moment on, every probe of
\* it succeeds, then once a throttled check runs the manager reaches the
\* primary and stays on it for ever; this holds from every state, whichever
\* pool (or none) is active.
CheckRuns == \E t \in Threads : pc[t] = "switch_back"

C10_Convergence ==
    []((primary_client = "Primary" /\ []primaryAlive /\ <>CheckRuns)
        => <>[](current_client = "Primary"))

C10_Witness ==
    \E t \in Threads :
        /\ Fresh(t)
        /\ acc[t].start_current = "None"
        /\ acc[t].probe = "healthy"
        /\ current_client = "Primary"

\* C11: with no primary pool and a fallback pool, the fallback is the
\* active pool in every state, every finished access has returned a handle
\* bound to the fallback, and every finished get_status reports
\* primary_available false and using_primary false.
FallbackOnly == primary_client = "None" /\ fallback_client = "Fallback"

C11_FallbackOnly ==
    FallbackOnly =>
        /\ current_client = "Fallback"
        /\ \A t \in Threads :
            pc[t] = "done" =>
                IF op[t] = "get_status"
                THEN /\ snapshot[t].primary_available = "False"
                     /\ snapshot[t].using_primary = "False"
                ELSE result[t] = Returned("Fallback")

C11_Witness ==
    /\ FallbackOnly
    /\ ~config.primary_url
    /\ \E t, u \in Threads :
        /\ pc[t] = "done" /\ op[t] = "get_status"
        /\ pc[u] = "done" /\ op[u] \in {"get_session", "get_database", "get_client"}
        /\ acc[u].checked

\* C12: an access that reads the clock less than one interval after the last
\* check makes no probe, writes none of the active pool, the primary-healthy
\* flag and the last-health-check timestamp, and returns what was active
\* when it started.
InsideThrottled(t) ==
    /\ pc[t] \in Section \ {"read_time"}
    /\ ~IntervalElapsed(t)

C12_BetweenWindows ==
    /\ [][\A t \in Threads :
            (InsideThrottled(t) /\ pc'[t] # pc[t])
            => UNCHANGED <<current_client, primary_healthy, last_health_check,
                           probe_log, session_factory, current_database>>]_vars
    /\ [](\A t \in Threads :
            (pc[t] = "done" /\ op[t] # "get_status" /\ ~IntervalElapsed(t))
            => /\ acc[t].probes = 0
               /\ ~acc[t].switched
               /\ result[t].pool = acc[t].start_current)

C12_Witness ==
    \E t \in Threads :
        /\ pc[t] = "done"
        /\ acc[t].start_last > 0
        /\ ~IntervalElapsed(t)
        /\ current_time[t] > acc[t].start_last
        /\ ~primaryAlive
        /\ result[t] = Returned("Primary")

\* C13: on a manager with at least one pool, an access whose probe of the
\* primary failed does not raise and returns a handle bound to a pool.
C13_ProbeFailureNeverRaises ==
    \A t \in Threads :
        (pc[t] = "done" /\ ~Unusable /\ acc[t].probe = "unhealthy")
            => (result[t].status = "returned" /\ result[t].pool # "None")

\* C14: after an access whose check probed an existing primary and found it
\* unhealthy, primary_healthy is false.
C14_FailedProbeRecorded ==
    \A t \in Threads :
        (Fresh(t) /\ primary_client = "Primary" /\ acc[t].probe = "unhealthy"
            /\ probe_log.last = "unhealthy")
            => ~primary_healthy

\* C16: a handle that was handed out keeps the pool it was bound to, whatever
\* the manager does afterwards.
C16_NoMigration ==
    [][\A t \in Threads :
        (pc[t] = "done" /\ pc'[t] = "done") => result'[t] = result[t]]_vars

C16_Witness ==
    \E t \in Threads :
        /\ pc[t] = "done"
        /\ acc[t].stale
        /\ op[t] \in {"get_session", "get_database"}
        /\ result[t] = Returned("Primary")
        /\ current_client = "Fallback"
        /\ lock = {}

\* C19: no step of get_status writes the active pool, the primary-healthy
\* flag or the last-health-check timestamp, makes a probe or takes the lock.
C19_StatusReadsOnly ==
    [][\A t \in Threads :
        ((op[t] = "get_status" \/ op'[t] = "get_status") /\ pc'[t] # pc[t])
        => UNCHANGED <<current_client, primary_healthy, last_health_check,
                       probe_log, lock, session_factory, current_database>>]_vars

C19_Witness ==
    \E t \in Threads :
        /\ pc[t] = "done" /\ op[t] = "get_status"
        /\ snapshot[t].using_primary = "True"
        /\ clock - last_health_check >= HealthCheckInterval
        /\ ~primaryAlive
        /\ current_client = "Primary" /\ fallback_client = "Fallback"
        /\ lock = {}

\* C15: every session get_db yields is closed exactly once when the request
\* ends, whether the body returns or raises; once the request has ended no
\* session of it is open; a get_db that fails to acquire yields no session.
C15_ScopedRelease ==
    \A t \in Threads :
        /\ getdb[t].failover.closes <= 1
        /\ getdb[t].legacy.closes <= 1
        /\ getdb[t].phase = "ended" =>
              /\ getdb[t].failover.state \in {"none", "closed"}
              /\ getdb[t].legacy.state \in {"none", "closed"}
              /\ getdb[t].failover.state = "closed" => getdb[t].failover.closes = 1
              /\ getdb[t].legacy.state = "closed" => getdb[t].legacy.closes = 1
              /\ (getdb[t].outcome = "RuntimeError: Database not initialized"
                    /\ ~getdb[t].thrown) =>
                    (getdb[t].failover = NoSession /\ getdb[t].legacy = NoSession)

\* One request whose body raised and one whose body returned have both
\* ended with their session closed.
C15_Witness ==
    /\ getdb[1].phase = "ended" /\ getdb[1].outcome = "HTTPException"
    /\ getdb[1].failover = Close(Opened)
    /\ getdb[2].phase = "ended" /\ getdb[2].outcome = "ok"
    /\ getdb[2].failover = Close(Opened)

\* A manager of the report with neither pool configured, one on its primary.
ReportedUnusable(k) ==
    health.mgrs[k].primary = "None" /\ health.mgrs[k].fallback = "None"
ReportedUsingPrimary(k) ==
    health.mgrs[k].primary = "Primary" /\ health.mgrs[k].current = "Primary"

\* C17: the database health report is "degraded" whenever at least one of
\* the three managers has neither pool configured, whatever the other two
\* are doing.
C17_DegradedIfUnusable ==
    (health.phase = "reported" /\ \E k \in Kinds : ReportedUnusable(k))
        => health.overall = "degraded"

\* One manager Unusable, two UsingPrimary, and the report is out.
C17_Witness ==
    /\ health.phase = "reported"
    /\ ReportedUnusable("redis")
    /\ ReportedUsingPrimary("postgres") /\ ReportedUsingPrimary("mongo")
    /\ health.overall = "degraded"

\* C18: the report is "healthy" only if every manager had, when its status
\* was read, at least one pool whose backend was usable (answering, not
\* merely configured).
C18_HealthyOnlyIfUsable ==
    (health.phase = "reported" /\ health.overall = "healthy")
        => \A k \in Kinds : health.usable[k]

\* C20: a user with MFA enabled who submits one of their unused recovery
\* codes (format XXXX-XXXX) to /mfa/disable passes input validation and ends
\* with mfa_enabled false.
C20_RecoveryCodeDisables ==
    (mfa.last.endpoint = "disable" /\ mfa.last.held)
        => (mfa.last.status = 200 /\ ~mfa.user.mfa_enabled)

\* C22: an exception the request body raises while it uses a session get_db
\* yielded reaches the caller unchanged; get_db closes that session and
\* neither opens a second session nor replaces the exception.
C22_BodyErrorUnchanged ==
    \A t \in Threads :
        (getdb[t].thrown /\ getdb[t].failover.state = "closed") =>
            /\ getdb[t].legacy = NoSession
            /\ getdb[t].phase = "ended"
            /\ getdb[t].outcome = getdb[t].raised

\* C23: a switch only ever selects a configured pool: on the primary, with
\* no fallback, a failed probe leaves the manager on the primary and the
\* access returns a primary-bound handle; and a manager with a configured
\* pool never ends an access without an active pool.
C23_SwitchOnlyToConfigured ==
    \A t \in Threads :
        /\ (Fresh(t) /\ acc[t].start_current = "Primary" /\ fallback_client = "None"
               /\ acc[t].probe = "unhealthy") =>
              (current_client = "Primary" /\ result[t] = Returned("Primary"))
        /\ (pc[t] = "done" /\ op[t] # "get_status" /\ ~Unusable) =>
              current_client # "None"

\* C24: when the constructor of the primary pool raises and a fallback URI
\* is configured, the manager ends construction on the fallback.
C24_FallbackOnFailedInit ==
    (Constructed /\ config.primary_raises /\ config.fallback_url
        /\ ~config.fallback_raises) => current_client = "Fallback"

\* C25: a status snapshot with using_primary true has primary_available
\* true, and current_db names the primary only if a primary is configured.
C25_NoPhantomPrimary ==
    \A t \in Threads :
        (pc[t] = "done" /\ op[t] = "get_status") =>
            /\ snapshot[t].using_primary = "True" =>
                  snapshot[t].primary_available = "True"
            /\ snapshot[t].current_db = PrimaryLabel(kind) =>
                  primary_client # "None"

\* C26: every snapshot get_status returns is consistent, also next to a
\* role transition in another thread: current_db is the primary's label
\* exactly when using_primary is true, and with both pools configured
\* primary_healthy is true exactly when using_primary is true.
C26_SnapshotConsistent ==
    \A t \in Threads :
        (pc[t] = "done" /\ op[t] = "get_status") =>
            /\ snapshot[t].current_db = PrimaryLabel(kind)
                  <=> snapshot[t].using_primary = "True"
            /\ (primary_client = "Primary" /\ fallback_client = "Fallback") =>
                  (snapshot[t].primary_healthy = "True"
                      <=> snapshot[t].using_primary = "True")

C28_DatabaseNameFollowsClient ==
    (kind = "mongo" /\ lock = {} /\ current_client # "None") =>
        current_database =
            [client |-> current_client,
             name |-> IF current_client = "Fallback" THEN LocalName
                      ELSE AtlasOrLocalName]

\* C21: a recovery code is accepted at most once between two generations of
\* the user's codes, in every sequence and interleaving of MFA login
\* verifications.
C21_RecoveryCodeSingleUse ==
    \A code \in DOMAIN mfa.accepts : mfa.accepts[code] <= 1

\* C29: no password-based login endpoint creates an access token for a user
\* with MFA enabled on the password alone.
C29_NoTokenOnPasswordAlone == mfa.password_tokens = {}

\* C30: get_comment_count(post_id) is the number of existing top-level
\* comments on the post plus the number of existing replies to them.
C30_CountIncludesReplies ==
    social.count.asked => social.count.value = social.count.total

====
